---------------------------- MODULE Spec2Model ----------------------------
(***************************************************************************)
(* State-machine model of src/stochastic_vol_model_err.py: the two error   *)
(* models homoscedastic() and stochastic_volatility(n_timesteps), run      *)
(* against a host trace that records every site the model registers.      *)
(*                                                                         *)
(* Numbers.  The program computes in binary floating point (jax.numpy).    *)
(* The model keeps the structure of that arithmetic in a small format:     *)
(* a value is an integer count of 1/Unit, with a three-bit significand     *)
(* (so the spacing of representable values doubles with every binade),     *)
(* round-to-nearest-even after every operation, overflow to +/-infinity,   *)
(* underflow to zero, and NaN.  Signed zero is not distinguished.          *)
(***************************************************************************)
EXTENDS Integers, Sequences, FiniteSets, TLC

(***************************************************************************)
(* Bound of the model: the largest n_timesteps a call is made with.        *)
(***************************************************************************)
MaxT == 3

---------------------------------------------------------------------------
(***************************************************************************)
(* Floating-point arithmetic (jax.numpy), scaled down.                     *)
(***************************************************************************)
Unit == 32

\* The finite non-negative representable values: significand 0..7, exponent 0..5.
Rep == {m * (2 ^ e) : m \in 0..7, e \in 0..5}

MaxFinite == 7 * Unit
\* The value one binade step above MaxFinite: a result that rounds to it overflows.
Overflow == 8 * Unit
PInf == Overflow + 1
NInf == -PInf
NaN == PInf + 1
\* A local variable that has not been assigned yet.
None == NaN + 1

IsNaN(x) == x = NaN
IsInf(x) == x = PInf \/ x = NInf
IsFinite(x) == x \in -MaxFinite..MaxFinite

Abs(x) == IF x < 0 THEN -x ELSE x
Sign(x) == IF x < 0 THEN -1 ELSE 1

RECURSIVE Mant(_)
\* The significand of a representable value (4..7 when normalised).
Mant(r) == IF r < 8 THEN r ELSE Mant(r \div 2)

Max(S) == CHOOSE x \in S : \A y \in S : y <= x
Min(S) == CHOOSE x \in S : \A y \in S : x <= y

\* Round the non-negative rational a/den to the nearest representable value,
\* ties to the even significand; Overflow stands for "rounds past MaxFinite".
RoundMag(a, den) ==
    IF a >= Overflow * den THEN Overflow
    ELSE LET Cand == Rep \cup {Overflow}
             lo == Max({r \in Cand : r * den <= a})
             hi == Min({r \in Cand : r * den >= a})
         IN  IF lo = hi THEN lo
             ELSE IF 2 * a < (lo + hi) * den THEN lo
             ELSE IF 2 * a > (lo + hi) * den THEN hi
             ELSE IF Mant(lo) % 2 = 0 THEN lo ELSE hi

\* The float nearest to the rational num/den (den > 0), in units of 1/Unit.
RoundQ(num, den) ==
    LET r == RoundMag(Abs(num), den)
    IN  IF r = Overflow THEN (IF num < 0 THEN NInf ELSE PInf)
        ELSE Sign(num) * r

Neg(x) == IF IsNaN(x) THEN NaN ELSE -x

Add(x, y) ==
    IF IsNaN(x) \/ IsNaN(y) THEN NaN
    ELSE IF IsInf(x) /\ IsInf(y) THEN (IF x = y THEN x ELSE NaN)
    ELSE IF IsInf(x) THEN x
    ELSE IF IsInf(y) THEN y
    ELSE RoundQ(x + y, 1)

Sub(x, y) == Add(x, Neg(y))

Mul(x, y) ==
    IF IsNaN(x) \/ IsNaN(y) THEN NaN
    ELSE IF IsInf(x) \/ IsInf(y)
         THEN (IF x = 0 \/ y = 0 THEN NaN
               ELSE IF Sign(x) = Sign(y) THEN PInf ELSE NInf)
    ELSE RoundQ(x * y, Unit)

Div(x, y) ==
    IF IsNaN(x) \/ IsNaN(y) THEN NaN
    ELSE IF IsInf(x) /\ IsInf(y) THEN NaN
    ELSE IF IsInf(x) THEN (IF Sign(x) = Sign(y) THEN PInf ELSE NInf)
    ELSE IF IsInf(y) THEN 0
    ELSE IF y = 0 THEN (IF x = 0 THEN NaN ELSE IF x > 0 THEN PInf ELSE NInf)
    ELSE RoundQ(Sign(y) * x * Unit, Abs(y))

\* jnp.sqrt: NaN below zero; otherwise the float nearest to the real root.
Sqrt(x) ==
    IF IsNaN(x) \/ x < 0 THEN NaN
    ELSE IF x = PInf THEN PInf
    ELSE LET a  == x * Unit
             lo == Max({r \in Rep : r * r <= a})
             hi == Min({r \in Rep : r * r >= a})
         IN  IF lo = hi THEN lo
             ELSE IF 4 * a < (lo + hi) * (lo + hi) THEN lo
             ELSE IF 4 * a > (lo + hi) * (lo + hi) THEN hi
             ELSE IF Mant(lo) % 2 = 0 THEN lo ELSE hi

\* The representable values in increasing order, and e^x correctly rounded
\* for x = RepSeq[i] (ExpPos) and x = -RepSeq[i] (ExpNeg); Overflow marks a
\* result past MaxFinite.
RepSeq == << 0, 1, 2, 3, 4, 5, 6, 7, 8, 10, 12, 14, 16, 20, 24, 28,
             32, 40, 48, 56, 64, 80, 96, 112, 128, 160, 192, 224 >>
ExpPos == << 32, 32, 32, 32, 40, 40, 40, 40, 40, 40, 48, 48, 56, 56, 64, 80,
             80, 112, 128, 192, 224, 256, 256, 256, 256, 256, 256, 256 >>
ExpNeg == << 32, 32, 32, 28, 28, 28, 28, 24, 24, 24, 20, 20, 20, 16, 16, 14,
             12, 10, 7, 6, 4, 3, 2, 1, 1, 0, 0, 0 >>

RepIndex(r) == CHOOSE i \in 1..Len(RepSeq) : RepSeq[i] = r

\* jnp.exp on one value.
Exp(x) ==
    IF IsNaN(x) THEN NaN
    ELSE IF x = PInf THEN PInf
    ELSE IF x = NInf THEN 0
    ELSE LET e == IF x >= 0 THEN ExpPos[RepIndex(x)] ELSE ExpNeg[RepIndex(-x)]
         IN  IF e = Overflow THEN PInf ELSE e

\* Faulty variant: h_t returned without exponentiating.
ExpArrayIdentity(a) == a
\* jnp.exp on an array: elementwise.
ExpArray(a) == [i \in 1..Len(a) |-> Exp(a[i])]

\* A decimal literal num/den of the source, as the float it denotes.
Lit(num, den) == RoundQ(num * Unit, den)


---------------------------------------------------------------------------
(***************************************************************************)
(* The host's primitives, as the program uses them.                        *)
(***************************************************************************)

\* What the random source can hand to one sample call (before the
\* distribution's own location/scale arithmetic):
\*   Beta      a value of the closed unit interval; the smallest positive
\*             float, and the two end points a forced or saturated draw gives;
\*   Gamma     a standard gamma variate (1/8, 1/2, 2);
\*   Normal    a standard normal variate (-1, 0, 1).
BetaDraws == {0, 1, Unit \div 4, Unit \div 2, (3 * Unit) \div 4, Unit}
GammaDraws == {Unit \div 8, Unit \div 2, 2 * Unit}
NormalDraws == {-Unit, 0, Unit}

\* dist.Beta(a, b) sampled with raw variate u.
BetaSample(a, b, u) == u
\* dist.Gamma(concentration, rate): a standard gamma variate divided by the rate.
GammaSample(concentration, rate, g) == Div(g, rate)
\* dist.InverseGamma(concentration, scale): the reciprocal of a Gamma(concentration,
\* rate = scale) variate.
InverseGammaSample(concentration, scale, g) ==
    Div(Lit(1, 1), GammaSample(concentration, scale, g))
\* dist.Normal(loc, scale): loc + scale * eps.
NormalSample(loc, scale, eps) == Add(loc, Mul(scale, eps))

\* One entry of the host trace.
Site(name, type, family, args, value) ==
    [name |-> name, type |-> type, family |-> family, args |-> args,
     value |-> value]

---------------------------------------------------------------------------
(***************************************************************************)
(* Fixed hyperparameters.                                                  *)
(***************************************************************************)
\* Faulty variant: c_0 given the value of g_0.
c_0Swapped == Lit(5, 1)
c_0 == Lit(25, 10)
g_0 == Lit(5, 1)
G_0 == Lit(333, 100)

b_mu == Lit(0, 1)
a_phi == Lit(5, 1)
b_phi == Lit(15, 10)
B_mu == Lit(1, 1)
B_sigma == Lit(1, 1)

---------------------------------------------------------------------------
(***************************************************************************)
(* Program state.                                                          *)
(***************************************************************************)
VARIABLES
    fn,             \* which model function is being called (lines 8, 19)
    n_timesteps,    \* the argument of stochastic_volatility (line 19)
    pc,             \* the site the call is about to register, or "done"
    run,            \* 1: first call; 2: the call repeated with the same seed
    stream,         \* the raw variates the random source has produced (run 1)
    first,          \* trace and returned value of run 1, kept for run 2
    trace,          \* the host trace: the sites registered, in order
    C_0,            \* homoscedastic: C_0 (line 14)
    hs_sigma2,      \* homoscedastic: sigma2 (line 15)
    sv_phi,         \* line 51
    sv_phi_trans,   \* line 52
    sv_sigma2_eta,  \* line 53
    sv_mu,          \* line 54
    h_0,            \* line 55
    tcarry,         \* the scan's carry: scan_vars, then each tcarry (lines 56, 66)
    step,           \* number of elements of jnp.zeros(n_timesteps) consumed (line 69)
    h_t,            \* the emitted values stacked so far (line 69)
    sigma2,         \* stochastic_volatility: sigma2 (line 71)
    result          \* the value returned (lines 16, 72)

vars == << fn, n_timesteps, pc, run, stream, first, trace, C_0, hs_sigma2,
           sv_phi, sv_phi_trans, sv_sigma2_eta, sv_mu, h_0, tcarry, step, h_t,
           sigma2, result >>

hsLocals == << C_0, hs_sigma2 >>
svParams == << sv_phi, sv_phi_trans, sv_sigma2_eta, sv_mu >>
svScan == << h_0, tcarry, step, h_t, sigma2 >>

\* The raw variates a sample call can receive: any of the distribution's in
\* the first run; in the repeated run, the one the same seed gave before.
\* Faulty variant: the repeated run draws afresh instead of from the seed.
DrawUnseeded(S) == S
Draw(S) == IF run = 1 THEN S ELSE {stream[Len(trace) + 1]}

Entry(f) == IF f = "homoscedastic" THEN "C_0" ELSE "sv_phi"

Fresh ==
    /\ trace = << >>
    /\ C_0 = None /\ hs_sigma2 = None
    /\ sv_phi = None /\ sv_phi_trans = None /\ sv_sigma2_eta = None
    /\ sv_mu = None /\ h_0 = None /\ tcarry = << >> /\ step = 0
    /\ h_t = << >> /\ sigma2 = << >>
    /\ result = None

Init ==
    /\ fn \in {"homoscedastic", "stochastic_volatility"}
    /\ n_timesteps \in (IF fn = "homoscedastic" THEN {0} ELSE 0..MaxT)
    /\ pc = Entry(fn)
    /\ run = 1
    /\ stream = << >>
    /\ first = [trace |-> << >>, result |-> None]
    /\ Fresh

Consume(u) == stream' = IF run = 1 THEN Append(stream, u) ELSE stream

---------------------------------------------------------------------------
(***************************************************************************)
(* homoscedastic()                                                         *)
(***************************************************************************)
SampleC0 ==
    /\ pc = "C_0"
    /\ \E g \in Draw(GammaDraws) :
         LET v == GammaSample(g_0, G_0, g)
         IN  /\ C_0' = v
             /\ trace' = Append(trace, Site("C_0", "sample", "Gamma", << g_0, G_0 >>, v))
             /\ Consume(g)
    /\ pc' = "sigma2"
    /\ UNCHANGED << fn, n_timesteps, run, first, hs_sigma2, svParams, svScan, result >>

SampleSigma2 ==
    /\ pc = "sigma2"
    /\ \E g \in Draw(GammaDraws) :
         LET v == InverseGammaSample(c_0, C_0, g)
         IN  /\ hs_sigma2' = v
             /\ trace' = Append(trace,
                    Site("sigma2", "sample", "InverseGamma", << c_0, C_0 >>, v))
             /\ Consume(g)
             /\ result' = v
    /\ pc' = "done"
    /\ UNCHANGED << fn, n_timesteps, run, first, C_0, svParams, svScan >>

---------------------------------------------------------------------------
(***************************************************************************)
(* stochastic_volatility(n_timesteps)                                      *)
(***************************************************************************)
\* sv_phi_trans = (sv_phi*2) - 1
PhiTrans(phi) == Sub(Mul(phi, Lit(2, 1)), Lit(1, 1))

\* jnp.sqrt(sv_sigma2_eta / (1 - sv_phi_trans**2))
H0Scale(sigma2_eta, phi_trans) ==
    Sqrt(Div(sigma2_eta, Sub(Lit(1, 1), Mul(phi_trans, phi_trans))))

\* Faulty variant: the carry is not centred on sv_mu.
ScanLocUncentred(mu, phi_trans, h_curr) == Add(mu, Mul(phi_trans, h_curr))
\* sv_mu + sv_phi_trans * (h_curr - sv_mu)
ScanLoc(mu, phi_trans, h_curr) == Add(mu, Mul(phi_trans, Sub(h_curr, mu)))

\* jnp.sqrt(sv_sigma2_eta)
ScanScale(sigma2_eta) == Sqrt(sigma2_eta)

\* scan_vars = (h_0, )
scan_vars(h0) == << h0 >>

\* Faulty variants: one transition too many; the scan left one transition early.
ScanHasNextOffByOne(i, n) == i <= n
ScanHasNextEarlyExit(i, n) == i < n - 1
\* scan over jnp.zeros(n_timesteps): after i transitions an element is left
\* exactly when i < n_timesteps.
ScanHasNext(i, n) == i < n

SamplePhi ==
    /\ pc = "sv_phi"
    /\ \E u \in Draw(BetaDraws) :
         LET v == BetaSample(a_phi, b_phi, u)
         IN  /\ sv_phi' = v
             /\ sv_phi_trans' = PhiTrans(v)
             /\ trace' = Append(trace, Site("sv_phi", "sample", "Beta", << a_phi, b_phi >>, v))
             /\ Consume(u)
    /\ pc' = "sv_sigma2_eta"
    /\ UNCHANGED << fn, n_timesteps, run, first, hsLocals, sv_sigma2_eta, sv_mu,
                    svScan, result >>

SampleSigma2Eta ==
    /\ pc = "sv_sigma2_eta"
    /\ \E g \in Draw(GammaDraws) :
         LET rate == Mul(Lit(1, 2), B_sigma)
             v == GammaSample(Lit(1, 2), rate, g)
         IN  /\ sv_sigma2_eta' = v
             /\ trace' = Append(trace,
                    Site("sv_sigma2_eta", "sample", "Gamma", << Lit(1, 2), rate >>, v))
             /\ Consume(g)
    /\ pc' = "sv_mu"
    /\ UNCHANGED << fn, n_timesteps, run, first, hsLocals, sv_phi, sv_phi_trans,
                    sv_mu, svScan, result >>

SampleMu ==
    /\ pc = "sv_mu"
    /\ \E eps \in Draw(NormalDraws) :
         LET scale == Sqrt(B_mu)
             v == NormalSample(b_mu, scale, eps)
         IN  /\ sv_mu' = v
             /\ trace' = Append(trace, Site("sv_mu", "sample", "Normal", << b_mu, scale >>, v))
             /\ Consume(eps)
    /\ pc' = "h_0"
    /\ UNCHANGED << fn, n_timesteps, run, first, hsLocals, sv_phi, sv_phi_trans,
                    sv_sigma2_eta, svScan, result >>

SampleH0 ==
    /\ pc = "h_0"
    /\ \E eps \in Draw(NormalDraws) :
         LET scale == H0Scale(sv_sigma2_eta, sv_phi_trans)
             v == NormalSample(sv_mu, scale, eps)
         IN  /\ h_0' = v
             /\ tcarry' = scan_vars(v)
             /\ trace' = Append(trace, Site("h_0", "sample", "Normal", << sv_mu, scale >>, v))
             /\ Consume(eps)
    /\ pc' = "scan"
    /\ UNCHANGED << fn, n_timesteps, run, first, hsLocals, svParams, step, h_t,
                    sigma2, result >>

\* One transition of scan(sv_ht_scan, scan_vars, jnp.zeros(n_timesteps)): the
\* body runs on the carry and the next element of the dummy sequence, its
\* first component becomes the carry and its second is stacked onto h_t.
sv_ht_scan ==
    /\ pc = "scan"
    /\ ScanHasNext(step, n_timesteps)
    /\ \E eps \in Draw(NormalDraws) :
         LET h_curr == tcarry[1]
             loc == ScanLoc(sv_mu, sv_phi_trans, h_curr)
             scale == ScanScale(sv_sigma2_eta)
             v == NormalSample(loc, scale, eps)
         IN  /\ tcarry' = << v >>
             /\ h_t' = Append(h_t, v)
             /\ trace' = Append(trace, Site("h_t", "sample", "Normal", << loc, scale >>, v))
             /\ Consume(eps)
    /\ step' = step + 1
    /\ UNCHANGED << fn, n_timesteps, pc, run, first, hsLocals, svParams, h_0,
                    sigma2, result >>

\* Faulty variant: sigma2 registered as a sample site.
RegisterSigma2Sampled(value) == Site("sigma2", "sample", "none", << >>, value)
\* numpyro.deterministic('sigma2', value)
RegisterSigma2(value) == Site("sigma2", "deterministic", "none", << >>, value)

\* The scan has consumed its whole input; sigma2 is registered and returned.
Deterministic ==
    /\ pc = "scan"
    /\ ~ScanHasNext(step, n_timesteps)
    /\ LET v == ExpArray(h_t)
       IN  /\ sigma2' = v
           /\ trace' = Append(trace, RegisterSigma2(v))
           /\ result' = v
    /\ pc' = "done"
    /\ UNCHANGED << fn, n_timesteps, run, stream, first, hsLocals, svParams, h_0,
                    tcarry, step, h_t >>

---------------------------------------------------------------------------
\* The same call made again under the same seed: a new frame and a new trace,
\* the random source rewound.
Rerun ==
    /\ pc = "done"
    /\ run = 1
    /\ run' = 2
    /\ first' = [trace |-> trace, result |-> result]
    /\ pc' = Entry(fn)
    /\ trace' = << >>
    /\ C_0' = None /\ hs_sigma2' = None
    /\ sv_phi' = None /\ sv_phi_trans' = None /\ sv_sigma2_eta' = None
    /\ sv_mu' = None /\ h_0' = None /\ tcarry' = << >> /\ step' = 0
    /\ h_t' = << >> /\ sigma2' = << >>
    /\ result' = None
    /\ UNCHANGED << fn, n_timesteps, stream >>

Next ==
    \/ SampleC0
    \/ SampleSigma2
    \/ SamplePhi
    \/ SampleSigma2Eta
    \/ SampleMu
    \/ SampleH0
    \/ sv_ht_scan
    \/ Deterministic
    \/ Rerun

Spec == Init /\ [][Next]_vars


---------------------------------------------------------------------------
(***************************************************************************)
(* Properties.                                                             *)
(***************************************************************************)
One == Lit(1, 1)
SV == fn = "stochastic_volatility"
HS == fn = "homoscedastic"
Returned == pc = "done"

\* The values of the sample sites registered under the name h_t, in order.
TracedHt == SelectSeq(trace, LAMBDA e : e.name = "h_t")
SampleSites == SelectSeq(trace, LAMBDA e : e.type = "sample")
\* A number that is neither NaN nor zero nor negative.
StrictlyPositive(x) == ~IsNaN(x) /\ x > 0

\* C1: for n_timesteps >= 1 and any drawn values, stochastic_volatility
\* returns exactly n_timesteps elements, each strictly positive.
C1_LengthAndStrictlyPositive ==
    (SV /\ Returned /\ n_timesteps >= 1) =>
        /\ Len(result) = n_timesteps
        /\ \A t \in 1..Len(result) : StrictlyPositive(result[t])

\* C2: the returned sigma2[t] is exp of the t-th traced h_t value; sigma2 is
\* a deterministic site and producing it consumes no random draw.
C2_Sigma2IsExpOfTracedHt ==
    (SV /\ Returned) =>
        LET last == trace[Len(trace)]
        IN  /\ last.name = "sigma2" /\ last.type = "deterministic"
            /\ result = last.value
            /\ Len(result) = Len(TracedHt)
            /\ \A t \in 1..Len(result) : result[t] = Exp(TracedHt[t].value)
            /\ Len(stream) = Len(SampleSites)

C2_Witness ==
    /\ SV /\ Returned /\ n_timesteps >= 2
    /\ result[1] # result[2]
    /\ result[1] # TracedHt[1].value
    /\ IsFinite(result[1]) /\ IsFinite(result[2])

C5_BoundaryEndsInError ==
    (SV /\ sv_phi_trans \in {One, Neg(One)}) => (h_0 = None /\ ~Returned)

\* C6: one call registers sv_phi, sv_sigma2_eta, sv_mu, h_0 (sample sites, once
\* each), then n_timesteps sample sites named h_t, then one deterministic site
\* sigma2, in this order and nothing else.
ExpectedSites(n) ==
    [i \in 1..(n + 5) |->
        IF i = 1 THEN << "sv_phi", "sample" >>
        ELSE IF i = 2 THEN << "sv_sigma2_eta", "sample" >>
        ELSE IF i = 3 THEN << "sv_mu", "sample" >>
        ELSE IF i = 4 THEN << "h_0", "sample" >>
        ELSE IF i <= n + 4 THEN << "h_t", "sample" >>
        ELSE << "sigma2", "deterministic" >>]

C8_ScanRecursion ==
    (SV /\ h_0 # None) =>
        /\ Len(h_t) = step /\ Len(TracedHt) = step /\ step <= n_timesteps
        /\ \A k \in 1..step :
              LET c == IF k = 1 THEN h_0 ELSE h_t[k - 1]
                  site == trace[4 + k]
              IN  /\ site.name = "h_t" /\ site.family = "Normal"
                  /\ site.args = << Add(sv_mu, Mul(sv_phi_trans, Sub(c, sv_mu))),
                                    Sqrt(sv_sigma2_eta) >>
                  /\ site.value = Add(site.args[1], Mul(site.args[2], stream[4 + k]))
                  /\ h_t[k] = site.value
        /\ tcarry = << IF step = 0 THEN h_0 ELSE h_t[step] >>
        /\ Returned => Len(result) = n_timesteps

C8_Witness ==
    /\ SV /\ pc = "scan" /\ step >= 2
    /\ sv_mu # 0 /\ sv_phi_trans \notin {0, One, Neg(One)}
    /\ h_t[1] # h_0 /\ h_t[2] # h_t[1]
    /\ IsFinite(h_t[2])

\* C9: while the scan runs, sv_mu, sv_phi_trans and sv_sigma2_eta keep the
\* values drawn before it; every transition is one more step of the same body
\* (no branch), and the scan ends only after exactly n_timesteps transitions.
C9_ScanFrame ==
    [][(SV /\ pc = "scan") =>
          /\ UNCHANGED << sv_phi, sv_phi_trans, sv_sigma2_eta, sv_mu, h_0, n_timesteps >>
          /\ step < n_timesteps => (pc' = "scan" /\ step' = step + 1)
          /\ pc' # "scan" =>
                (pc' = "done" /\ step = n_timesteps /\ Len(h_t) = n_timesteps)
          /\ sv_sigma2_eta = trace[2].value /\ sv_mu = trace[3].value
          /\ sv_phi_trans = Sub(Mul(trace[1].value, Lit(2, 1)), One)]_vars

C9_Witness == SV /\ Returned /\ n_timesteps >= 2 /\ step = n_timesteps

\* C10: for every sv_phi strictly inside (0,1), sv_phi_trans = 2*sv_phi - 1 is
\* strictly inside (-1,1), 1 - sv_phi_trans^2 > 0, and the variance
\* sv_sigma2_eta / (1 - sv_phi_trans^2) of the h_0 draw is defined and strictly
\* positive when sv_sigma2_eta > 0.
C10_TransformInsideOpenInterval ==
    (SV /\ sv_phi # None /\ 0 < sv_phi /\ sv_phi < One) =>
        /\ Neg(One) < sv_phi_trans /\ sv_phi_trans < One
        /\ Sub(One, Mul(sv_phi_trans, sv_phi_trans)) > 0
        /\ (sv_sigma2_eta # None /\ sv_sigma2_eta > 0) =>
              LET var == Div(sv_sigma2_eta, Sub(One, Mul(sv_phi_trans, sv_phi_trans)))
              IN  IsFinite(var) /\ var > 0

=============================================================================
